---- MODULE Spec2Model ----
(***************************************************************************)
(* Model of assets/evaluate-skill.py: the multi-turn conversation          *)
(* evaluation harness (Scenario Runner, Conversation Driver, Termination   *)
(* Oracle, User Simulator, Transcript Grader).                             *)
(*                                                                         *)
(* Texts that the code parses (judge replies, oracle replies, scenario     *)
(* names) are sequences of one-character strings.  Texts that the code     *)
(* only passes along (message contents) are sequences of text pieces, and  *)
(* string concatenation is sequence concatenation.                         *)
(***************************************************************************)
EXTENDS Integers, Sequences, FiniteSets

(***************************************************************************)
(* Python str operations used by the harness                               *)
(***************************************************************************)

\* s[from:] for 1-based from
DropFirst(s, n) == SubSeq(s, n + 1, Len(s))

\* str.startswith
StartsWith(s, p) ==
    /\ Len(p) <= Len(s)
    /\ SubSeq(s, 1, Len(p)) = p

\* `p in s` for str: p occurs as a contiguous substring of s
Contains(s, p) ==
    \E k \in 0..(Len(s) - Len(p)) : SubSeq(s, k + 1, k + Len(p)) = p

\* Whitespace characters of the modelled alphabet
Whitespace == {" ", "\n", "\t", "\r"}

IsSpace(c) == c \in Whitespace

\* The least position k >= p of s with s[k] in the set cs, Len(s) + 1 when
\* there is none
FirstIn(s, p, cs) ==
    LET hits == {k \in p..Len(s) : s[k] \in cs}
    IN  IF hits = {} THEN Len(s) + 1
        ELSE CHOOSE k \in hits : \A j \in hits : k <= j

\* The least position k >= p of s with s[k] outside the set cs, Len(s) + 1
\* when there is none
FirstNotIn(s, p, cs) ==
    LET hits == {k \in p..Len(s) : s[k] \notin cs}
    IN  IF hits = {} THEN Len(s) + 1
        ELSE CHOOSE k \in hits : \A j \in hits : k <= j

\* str.lstrip()
LStrip(s) == SubSeq(s, FirstNotIn(s, 1, Whitespace), Len(s))

\* str.rstrip()
RStrip(s) ==
    LET keep == {k \in 1..Len(s) : ~IsSpace(s[k])}
    IN  IF keep = {} THEN <<>>
        ELSE SubSeq(s, 1, CHOOSE k \in keep : \A j \in keep : j <= k)

\* str.strip()
Strip(s) == RStrip(LStrip(s))

\* str.split(sep) for a one-character separator: always at least one field
RECURSIVE Split(_, _)
Split(s, sep) ==
    LET k == FirstIn(s, 1, {sep})
    IN  IF k > Len(s) THEN <<s>>
        ELSE <<SubSeq(s, 1, k - 1)>> \o Split(DropFirst(s, k), sep)

\* reversed(seq)
RECURSIVE Reversed(_)
Reversed(s) ==
    IF s = <<>> THEN <<>> ELSE Reversed(Tail(s)) \o <<Head(s)>>

Digits == {"0", "1", "2", "3", "4", "5", "6", "7", "8", "9"}

DigitValue(c) ==
    CASE c = "0" -> 0 [] c = "1" -> 1 [] c = "2" -> 2 [] c = "3" -> 3
      [] c = "4" -> 4 [] c = "5" -> 5 [] c = "6" -> 6 [] c = "7" -> 7
      [] c = "8" -> 8 [] c = "9" -> 9

RECURSIVE DecimalValue(_)
DecimalValue(s) ==
    IF s = <<>> THEN 0
    ELSE DecimalValue(SubSeq(s, 1, Len(s) - 1)) * 10 + DigitValue(s[Len(s)])

\* Digit groups separated by single underscores, as int() accepts them
IntLiteral(s) ==
    /\ s # <<>>
    /\ s[1] \in Digits
    /\ s[Len(s)] \in Digits
    /\ \A k \in 1..Len(s) : s[k] \in Digits \cup {"_"}
    /\ \A k \in 1..(Len(s) - 1) : ~(s[k] = "_" /\ s[k + 1] = "_")

\* int(s): ok is FALSE where Python raises ValueError.  int accepts
\* surrounding whitespace, an optional sign and digits, possibly grouped by
\* single underscores.
PyInt(s) ==
    LET t      == Strip(s)
        signed == t # <<>> /\ Head(t) \in {"-", "+"}
        body   == IF signed THEN Tail(t) ELSE t
        digits == SelectSeq(body, LAMBDA c : c \in Digits)
        value  == DecimalValue(digits)
    IN  IF IntLiteral(body)
        THEN [ok |-> TRUE, v |-> IF signed /\ Head(t) = "-" THEN 0 - value ELSE value]
        ELSE [ok |-> FALSE, v |-> 0]

(***************************************************************************)
(* json.loads, over texts without a backslash.  A Python value is a record *)
(* [t, v]: t is the type tag, v the payload (for a float, the literal as   *)
(* it is written).                                                         *)
(***************************************************************************)

PyInteger(n) == [t |-> "int", v |-> n]
PyFloat(literal) == [t |-> "float", v |-> literal]
PyStr(s) == [t |-> "str", v |-> s]
PyBool(b) == [t |-> "bool", v |-> b]
PyNone == [t |-> "NoneType", v |-> 0]
PyList(items) == [t |-> "list", v |-> items]
PyDict(pairs) == [t |-> "dict", v |-> pairs]

\* Outcomes of the scanner: a value and the position after it, or the
\* exception raised
NoParse == [ok |-> FALSE, exc |-> "JSONDecodeError", end |-> 0, val |-> PyNone]
TooDeep == [ok |-> FALSE, exc |-> "RecursionError", end |-> 0, val |-> PyNone]
Parsed(val, end) == [ok |-> TRUE, exc |-> "none", end |-> end, val |-> val]

\* sys.getrecursionlimit() of the interpreter (its default)
RecursionLimit == 1000

\* Python frames in use when scan_once is entered in a run of the script:
\* <module>, grade_transcript, json.loads, JSONDecoder.decode, raw_decode
FramesAtScan == 5

\* scan_once enters the recursion guard (Py_EnterRecursiveCall) for every
\* array and object it opens: the deepest nesting the guard lets through
MaxNesting == RecursionLimit - FramesAtScan - 1

\* Frames the scanner needs to raise JSONDecodeError itself (raise_errmsg
\* calls the Python class, whose __init__ computes the line and the column)
FramesOfError == 3

\* The deepest nesting at which raise_errmsg still gets its JSONDecodeError
\* built; with more arrays and objects open the call raises RecursionError
MaxErrorNesting == RecursionLimit - FramesAtScan - FramesOfError - 1

\* parse_constant(literal) for NaN, Infinity and -Infinity: the call of the
\* Python object passes the recursion guard like the opening of an array
ParseConstant(literal, end, depth) ==
    IF depth >= MaxNesting THEN TooDeep ELSE Parsed(PyFloat(literal), end)

\* raise_errmsg with depth arrays and objects open
ErrMsg(depth) == IF depth > MaxErrorNesting THEN TooDeep ELSE NoParse

\* s[p:p+1], the empty text past the end
CharAt(s, p) == IF p >= 1 /\ p <= Len(s) THEN s[p] ELSE ""

\* s[p:p+len(lit)] == lit
LitAt(s, p, lit) ==
    /\ p + Len(lit) - 1 <= Len(s)
    /\ SubSeq(s, p, p + Len(lit) - 1) = lit

\* WHITESPACE.match(s, p).end()
SkipWs(s, p) == FirstNotIn(s, p, Whitespace)

\* End of the run of digits that starts at p (p itself when there is none)
DigitsEnd(s, p) == FirstNotIn(s, p, Digits)

\* scanstring(s, p, strict=True): p is the position after the opening quote,
\* depth the number of arrays and objects open around the string.  An
\* unterminated string and a control character inside the string are errors
\* of raise_errmsg.
ScanString(s, p, depth) ==
    LET k == FirstIn(s, p, {"\"", "\n", "\t", "\r"})
    IN  IF k > Len(s) \/ s[k] # "\"" THEN ErrMsg(depth)
        ELSE Parsed(PyStr(SubSeq(s, p, k - 1)), k + 1)

\* NUMBER_RE = (-?(?:0|[1-9]\d*))(\.\d+)?([eE][-+]?\d+)? matched at p: an int
\* without fraction and exponent, a float with either
MatchNumber(s, p) ==
    LET neg     == CharAt(s, p) = "-"
        q       == IF neg THEN p + 1 ELSE p
        intEnd  == IF CharAt(s, q) = "0" THEN q + 1 ELSE DigitsEnd(s, q)
        value   == DecimalValue(SubSeq(s, q, intEnd - 1))
        hasFrac == CharAt(s, intEnd) = "." /\ DigitsEnd(s, intEnd + 1) > intEnd + 1
        fracEnd == IF hasFrac THEN DigitsEnd(s, intEnd + 1) ELSE intEnd
        eFrom   == IF CharAt(s, fracEnd + 1) \in {"-", "+"} THEN fracEnd + 2 ELSE fracEnd + 1
        hasExp  == CharAt(s, fracEnd) \in {"e", "E"} /\ DigitsEnd(s, eFrom) > eFrom
        end     == IF hasExp THEN DigitsEnd(s, eFrom) ELSE fracEnd
    IN  IF intEnd = q THEN NoParse
        ELSE IF hasFrac \/ hasExp THEN Parsed(PyFloat(SubSeq(s, p, end - 1)), end)
        ELSE Parsed(PyInteger(IF neg THEN 0 - value ELSE value), intEnd)

RECURSIVE ScanOnce(_, _, _), ObjectMembers(_, _, _, _), ArrayElements(_, _, _, _)
RECURSIVE AfterMember(_, _, _, _, _), AfterElement(_, _, _, _)

\* JSONObject's loop once the value of the member named key has been
\* scanned: an exception of the scan is passed on, } ends the object, a
\* comma and a quote lead to the next member
AfterMember(s, key, acc, depth, value) ==
    IF ~value.ok THEN value
    ELSE
    LET pairs == Append(acc, [k |-> key, val |-> value.val])
        delim == SkipWs(s, value.end)
        next  == SkipWs(s, delim + 1)
    IN  IF CharAt(s, delim) = "}" THEN Parsed(PyDict(pairs), delim + 1)
        ELSE IF CharAt(s, delim) # "," THEN ErrMsg(depth)
        ELSE IF CharAt(s, next) # "\"" THEN ErrMsg(depth)
        ELSE ObjectMembers(s, next + 1, pairs, depth)

\* JSONObject's loop: p is the position after the opening quote of a key,
\* depth the number of arrays and objects open around the members
ObjectMembers(s, p, acc, depth) ==
    LET key == ScanString(s, p, depth)
    IN  IF ~key.ok THEN key
        ELSE
        LET colon == SkipWs(s, key.end)
        IN  IF CharAt(s, colon) # ":" THEN ErrMsg(depth)
            ELSE
            AfterMember(s, key.val.v, acc, depth,
                        ScanOnce(s, SkipWs(s, colon + 1), depth))

\* JSONArray's loop once an element has been scanned: an exception of the
\* scan is passed on, ] ends the array, a comma leads to the next element
AfterElement(s, acc, depth, value) ==
    IF ~value.ok THEN value
    ELSE
    LET items == Append(acc, value.val)
        delim == SkipWs(s, value.end)
    IN  IF CharAt(s, delim) = "]" THEN Parsed(PyList(items), delim + 1)
        ELSE IF CharAt(s, delim) # "," THEN ErrMsg(depth)
        ELSE ArrayElements(s, SkipWs(s, delim + 1), items, depth)

\* JSONArray's loop: p is the position of the next element, depth the
\* number of arrays and objects open around the elements
ArrayElements(s, p, acc, depth) ==
    AfterElement(s, acc, depth, ScanOnce(s, p, depth))

\* scan_once(s, p): one JSON value starting exactly at p, with depth arrays
\* and objects open around it.  Opening one more passes the recursion guard
\* first, which raises RecursionError when MaxNesting are open already
ScanOnce(s, p, depth) ==
    LET c == CharAt(s, p)
    IN  IF c = "" THEN NoParse
        ELSE IF c = "\"" THEN ScanString(s, p + 1, depth)
        ELSE IF c \in {"{", "["} /\ depth >= MaxNesting THEN TooDeep
        ELSE IF c = "{" THEN
            LET q == SkipWs(s, p + 1)
            IN  IF CharAt(s, q) = "}" THEN Parsed(PyDict(<<>>), q + 1)
                ELSE IF CharAt(s, q) # "\"" THEN ErrMsg(depth + 1)
                ELSE ObjectMembers(s, q + 1, <<>>, depth + 1)
        ELSE IF c = "[" THEN
            LET q == SkipWs(s, p + 1)
            IN  IF CharAt(s, q) = "]" THEN Parsed(PyList(<<>>), q + 1)
                ELSE ArrayElements(s, q, <<>>, depth + 1)
        ELSE IF LitAt(s, p, <<"n", "u", "l", "l">>) THEN Parsed(PyNone, p + 4)
        ELSE IF LitAt(s, p, <<"t", "r", "u", "e">>) THEN Parsed(PyBool(TRUE), p + 4)
        ELSE IF LitAt(s, p, <<"f", "a", "l", "s", "e">>) THEN Parsed(PyBool(FALSE), p + 5)
        ELSE IF MatchNumber(s, p).ok THEN MatchNumber(s, p)
        ELSE IF LitAt(s, p, <<"N", "a", "N">>) THEN ParseConstant(<<"N", "a", "N">>, p + 3, depth)
        ELSE IF LitAt(s, p, <<"I", "n", "f", "i", "n", "i", "t", "y">>)
            THEN ParseConstant(SubSeq(s, p, p + 7), p + 8, depth)
        ELSE IF LitAt(s, p, <<"-", "I", "n", "f", "i", "n", "i", "t", "y">>)
            THEN ParseConstant(SubSeq(s, p, p + 8), p + 9, depth)
        ELSE NoParse

\* The arrays a text opens before anything else: the [ in its leading run
\* of [ and whitespace.  The scanner opens them one inside the other
LeadingArrays(text) ==
    Cardinality({k \in 1..(FirstNotIn(text, 1, Whitespace \cup {"["}) - 1) :
                    text[k] = "["})

\* JSONDecoder.decode once raw_decode has given value: an exception is
\* passed on, and only whitespace may follow the value ("Extra data")
DecodeEnd(text, value) ==
    IF ~value.ok THEN value
    ELSE IF SkipWs(text, value.end) # Len(text) + 1 THEN NoParse
    ELSE value

\* The innermost of the leading arrays, which the scanner reaches with all
\* the leading arrays but that one open: empty, or its elements scanned with
\* all of them open (the whole value when the text does not start with [)
Innermost(text) ==
    LET q == FirstNotIn(text, 1, Whitespace \cup {"["})
    IN  IF LeadingArrays(text) = 0 THEN ScanOnce(text, q, 0)
        ELSE IF CharAt(text, q) = "]" THEN Parsed(PyList(<<>>), q + 1)
        ELSE ArrayElements(text, q, <<>>, LeadingArrays(text))

\* raw_decode: the value at the first character that is no whitespace.  An
\* exception inside the innermost leading array is passed on by every array
\* around it, so it is the outcome of the whole scan
RawDecode(text, inner) ==
    IF ~inner.ok \/ LeadingArrays(text) <= 1 THEN inner
    ELSE ScanOnce(text, SkipWs(text, 1), 0)

\* json.loads(text): leading whitespace, one value, trailing whitespace,
\* end.  A text whose leading arrays alone exceed the guard raises without
\* the scan being followed into them
JsonLoads(text) ==
    IF LeadingArrays(text) > MaxNesting THEN TooDeep
    ELSE DecodeEnd(text, RawDecode(text, Innermost(text)))

\* dict built from the pairs in order: a repeated key keeps its last value
RECURSIVE DictGet(_, _, _)
DictGet(pairs, key, default) ==
    IF pairs = <<>> THEN default
    ELSE IF pairs[Len(pairs)].k = key THEN pairs[Len(pairs)].val
    ELSE DictGet(SubSeq(pairs, 1, Len(pairs) - 1), key, default)

(***************************************************************************)
(* Transcript Grader: parsing of the judge's reply (grade_transcript)      *)
(***************************************************************************)

\* Outcome of a Python call: the value returned, or the exception raised
Returned(v) == [exc |-> "none", val |-> v]
Raised(e) == [exc |-> e, val |-> PyNone]

OverallKey == <<"o", "v", "e", "r", "a", "l", "l">>
ScorePrefix == <<"S", "C", "O", "R", "E", ":">>

\* result.get("overall", 3)
DefaultOverall == 3

\* return 3 ("last resort fallback")
FallbackScore == 3

\* A grader that clamps a numeric overall into 1..5
GetOverall_Clamped(result) ==
    IF result.t # "dict" THEN Raised("AttributeError")
    ELSE LET got == DictGet(result.v, OverallKey, PyInteger(DefaultOverall))
         IN  IF got.t # "int" THEN Returned(got)
             ELSE IF got.v > 5 THEN Returned(PyInteger(5))
             ELSE IF got.v < 1 THEN Returned(PyInteger(1))
             ELSE Returned(got)

\* A grader that asks for overall without a default
GetOverall_NoDefault(result) ==
    IF result.t = "dict"
    THEN Returned(DictGet(result.v, OverallKey, PyNone))
    ELSE Raised("AttributeError")

\* result.get("overall", 3) on the value json.loads returned: only a dict has
\* get; any other JSON value raises AttributeError, which nothing catches.
GetOverall(result) ==
    IF result.t = "dict"
    THEN Returned(DictGet(result.v, OverallKey, PyInteger(DefaultOverall)))
    ELSE Raised("AttributeError")

\* int(line.split(":")[1].strip()); ok is FALSE on ValueError or IndexError
ScoreOfLine(line) ==
    LET fields == Split(line, ":")
    IN  IF Len(fields) < 2 THEN [ok |-> FALSE, v |-> 0]
        ELSE PyInt(Strip(fields[2]))

\* for line in <lines>: the first stripped line that starts with "SCORE:" and
\* whose score converts is returned; otherwise the last-resort fallback
RECURSIVE ScanScoreLines(_)
ScanScoreLines(lines) ==
    IF lines = <<>> THEN PyInteger(FallbackScore)
    ELSE LET line == Strip(Head(lines))
         IN  IF StartsWith(line, ScorePrefix) /\ ScoreOfLine(line).ok
             THEN PyInteger(ScoreOfLine(line).v)
             ELSE ScanScoreLines(Tail(lines))

\* The fallback scan over reversed(text.split("\n"))
ScoreLineFallback(text) == ScanScoreLines(Reversed(Split(text, "\n")))

\* The statement at which grade_transcript is left: the return in the try
\* block (or the exception raised there), the return in the scan of the
\* SCORE: lines, or the last return
ReturnSite(text) ==
    LET result == JsonLoads(text)
        lines  == Reversed(Split(text, "\n"))
    IN  IF result.ok
        THEN IF GetOverall(result.val).exc = "none" THEN "json" ELSE "raised"
        ELSE IF result.exc # "JSONDecodeError" THEN "raised"
        ELSE IF \E k \in 1..Len(lines) :
                   /\ StartsWith(Strip(lines[k]), ScorePrefix)
                   /\ ScoreOfLine(Strip(lines[k])).ok
             THEN "score_line"
             ELSE "last_resort"

\* The try block and its handler once json.loads has given result: the
\* overall of the value, the scan of the lines on JSONDecodeError, any other
\* exception passed on
AfterLoads(text, result) ==
    IF result.ok THEN GetOverall(result.val)
    ELSE IF result.exc # "JSONDecodeError" THEN Raised(result.exc)
    ELSE Returned(ScoreLineFallback(text))

\* grade_transcript after the judge's reply has arrived: only
\* json.JSONDecodeError is caught and leads to the scan of the lines
ParseJudgeReply(text) == AfterLoads(text, JsonLoads(text))

(***************************************************************************)
(* Judge replies the Chat Gateway may return                               *)
(***************************************************************************)

\* "{\"overall\": 4}"
ReplyOverall4 ==
    <<"{", "\"", "o", "v", "e", "r", "a", "l", "l", "\"", ":", " ", "4", "}">>

\* "{\"overall\": 7}"
ReplyOverall7 ==
    <<"{", "\"", "o", "v", "e", "r", "a", "l", "l", "\"", ":", " ", "7", "}">>

\* "{\"reasoning\": \"ok\", \"behavior_results\": [], \"overall\": 2}"
ReplyFullJudgment ==
    <<"{", "\"", "r", "e", "a", "s", "o", "n", "i", "n", "g", "\"", ":",
      " ", "\"", "o", "k", "\"", ",", " ", "\"", "b", "e", "h", "a", "v",
      "i", "o", "r", "_", "r", "e", "s", "u", "l", "t", "s", "\"", ":",
      " ", "[", "]", ",", " ", "\"", "o", "v", "e", "r", "a", "l", "l",
      "\"", ":", " ", "2", "}">>

\* "{\"reasoning\": \"ok\"}"
ReplyNoOverall ==
    <<"{", "\"", "r", "e", "a", "s", "o", "n", "i", "n", "g", "\"", ":",
      " ", "\"", "o", "k", "\"", "}">>

\* "{\"overall\": \"4\"}"
ReplyOverallStr ==
    <<"{", "\"", "o", "v", "e", "r", "a", "l", "l", "\"", ":", " ", "\"",
      "4", "\"", "}">>

\* "{\"overall\": null}"
ReplyOverallNull ==
    <<"{", "\"", "o", "v", "e", "r", "a", "l", "l", "\"", ":", " ", "n",
      "u", "l", "l", "}">>

\* "{\"overall\": true}"
ReplyOverallTrue ==
    <<"{", "\"", "o", "v", "e", "r", "a", "l", "l", "\"", ":", " ", "t",
      "r", "u", "e", "}">>

\* "{\"overall\": 1, \"overall\": 5}"
ReplyOverallTwice ==
    <<"{", "\"", "o", "v", "e", "r", "a", "l", "l", "\"", ":", " ", "1",
      ",", " ", "\"", "o", "v", "e", "r", "a", "l", "l", "\"", ":", " ",
      "5", "}">>

\* "5"
ReplyNumber ==
    <<"5">>

\* "[4]"
ReplyList ==
    <<"[", "4", "]">>

\* "null"
ReplyNull ==
    <<"n", "u", "l", "l">>

\* "\"SCORE: 4\""
ReplyString ==
    <<"\"", "S", "C", "O", "R", "E", ":", " ", "4", "\"">>

\* "blah\nSCORE: 2\n"
ReplyBlahScore2 ==
    <<"b", "l", "a", "h", "\n", "S", "C", "O", "R", "E", ":", " ", "2", "\n">>

\* "not json at all"
ReplyNotJson ==
    <<"n", "o", "t", " ", "j", "s", "o", "n", " ", "a", "t", " ", "a", "l",
      "l">>

\* ""
ReplyEmpty ==
    <<>>

\* "SCORE: 2: ok"
ReplyScoreThenColon ==
    <<"S", "C", "O", "R", "E", ":", " ", "2", ":", " ", "o", "k">>

\* "SCORE: 4\nSCORE: x"
ReplyScoreUnparsedLast ==
    <<"S", "C", "O", "R", "E", ":", " ", "4", "\n", "S", "C", "O", "R",
      "E", ":", " ", "x">>

\* "SCORE: 1\nSCORE: 5"
ReplyTwoScores ==
    <<"S", "C", "O", "R", "E", ":", " ", "1", "\n", "S", "C", "O", "R",
      "E", ":", " ", "5">>

\* "  SCORE: 2"
ReplyIndentedScore ==
    <<" ", " ", "S", "C", "O", "R", "E", ":", " ", "2">>

\* "SCORE: 4/5"
ReplyScoreOutOf ==
    <<"S", "C", "O", "R", "E", ":", " ", "4", "/", "5">>

\* "SCORE:"
ReplyScoreBare ==
    <<"S", "C", "O", "R", "E", ":">>

\* "{\"overall\": 4} ok"
ReplyJsonThenText ==
    <<"{", "\"", "o", "v", "e", "r", "a", "l", "l", "\"", ":", " ", "4",
      "}", " ", "o", "k">>

\* "{\"overall\": 4,}"
ReplyTrailingComma ==
    <<"{", "\"", "o", "v", "e", "r", "a", "l", "l", "\"", ":", " ", "4",
      ",", "}">>

\* "the SCORE: 5"
ReplyProseScore ==
    <<"t", "h", "e", " ", "S", "C", "O", "R", "E", ":", " ", "5">>

\* "SCORE: 4\nSCORE: 2: ok"
ReplyScoreBeforeColonLine ==
    <<"S", "C", "O", "R", "E", ":", " ", "4", "\n", "S", "C", "O", "R",
      "E", ":", " ", "2", ":", " ", "o", "k">>

\* "[" * 995: one array more than the recursion guard lets through
ReplyDeepArrays == [k \in 1..(MaxNesting + 1) |-> "["]

\* "[" * 992 + "1 2\nSCORE: 2": the scanner misses the comma with one array
\* more open than raise_errmsg can raise JSONDecodeError under
ReplyDeepErrorThenScore ==
    [k \in 1..(MaxErrorNesting + 1) |-> "["]
        \o <<"1", " ", "2", "\n", "S", "C", "O", "R", "E", ":", " ", "2">>

\* "[" * 995 + "\nSCORE: 2"
ReplyDeepThenScore ==
    ReplyDeepArrays \o <<"\n", "S", "C", "O", "R", "E", ":", " ", "2">>

\* One reply of each kind: an overall that is a number, an overall that is
\* not one, a reply without a score, a reply that is no JSON object
CoreJudgeReplies ==
    {ReplyOverall4, ReplyOverallStr, ReplyNotJson, ReplyNumber}

JudgeReplies ==
    {ReplyOverall4,
     ReplyOverall7,
     ReplyFullJudgment,
     ReplyNoOverall,
     ReplyOverallStr,
     ReplyOverallNull,
     ReplyOverallTrue,
     ReplyOverallTwice,
     ReplyNumber,
     ReplyList,
     ReplyNull,
     ReplyString,
     ReplyBlahScore2,
     ReplyNotJson,
     ReplyEmpty,
     ReplyScoreThenColon,
     ReplyScoreUnparsedLast,
     ReplyTwoScores,
     ReplyIndentedScore,
     ReplyScoreOutOf,
     ReplyScoreBare,
     ReplyJsonThenText,
     ReplyTrailingComma,
     ReplyProseScore,
     ReplyScoreBeforeColonLine,
     ReplyDeepArrays,
     ReplyDeepThenScore,
     ReplyDeepErrorThenScore}

\* The parse of every judge reply, computed once
JudgeOutcome == [text \in JudgeReplies |-> ParseJudgeReply(text)]

(***************************************************************************)
(* Termination Oracle: interpretation of the reply (needs_user_input)      *)
(***************************************************************************)

WaitingToken == <<"W", "A", "I", "T", "I", "N", "G">>

\* An Oracle that wants the reply to be exactly the word
OracleSaysWaiting_Exact(response) == response = WaitingToken

\* "WAITING" in response
OracleSaysWaiting(response) == Contains(response, WaitingToken)

\* "WAITING"
OracleWaiting ==
    <<"W", "A", "I", "T", "I", "N", "G">>

\* "DONE"
OracleDone ==
    <<"D", "O", "N", "E">>

\* ""
OracleEmpty ==
    <<>>

\* "waiting"
OracleLower ==
    <<"w", "a", "i", "t", "i", "n", "g">>

\* "The assistant is WAITING."
OracleSentence ==
    <<"T", "h", "e", " ", "a", "s", "s", "i", "s", "t", "a", "n", "t", " ",
      "i", "s", " ", "W", "A", "I", "T", "I", "N", "G", ".">>

\* "AWAITING"
OracleAwaiting ==
    <<"A", "W", "A", "I", "T", "I", "N", "G">>

\* "MAYBE"
OracleNeither ==
    <<"M", "A", "Y", "B", "E">>

\* "WAIT ING"
OracleSplit ==
    <<"W", "A", "I", "T", " ", "I", "N", "G">>

OracleReplies ==
    {OracleWaiting,
     OracleDone,
     OracleEmpty,
     OracleLower,
     OracleSentence,
     OracleAwaiting,
     OracleNeither,
     OracleSplit}

(***************************************************************************)
(* Scenarios                                                               *)
(***************************************************************************)

\* Bounds of the model
MaxScenarios == 2
MaxTurnsCap == 3

\* "TODO"
TodoMarker == <<"T", "O", "D", "O">>

\* The template scenario the file ships with
ScenarioTodo ==
    [name |-> <<"T", "O", "D", "O", "_", "s">>,
     initial_message |-> "TODO: Replace with actual user request",
     context_files |-> <<>>,
     user_simulator_instructions |-> "TODO",
     expected_behaviors |-> <<"TODO: Expected behavior 1">>]

\* A scenario without context files
ScenarioPlain ==
    [name |-> <<"p">>,
     initial_message |-> "Explain this skill",
     context_files |-> <<>>,
     user_simulator_instructions |-> "Approve suggestions",
     expected_behaviors |-> <<"Asks which mode the user prefers">>]

\* A scenario whose context_files mapping was filled with "b.py" first and
\* "a.py" second (a dict keeps insertion order)
ScenarioFiles ==
    [name |-> <<"f">>,
     initial_message |-> "Optimize this sorting function for speed",
     context_files |-> <<[name |-> "b.py", content |-> "import a"],
                         [name |-> "a.py", content |-> "def sort(arr): ..."]>>,
     user_simulator_instructions |-> "Say Vibe Mode",
     expected_behaviors |-> <<"Measures baseline performance",
                              "Asks before applying changes">>]

\* The values TRAINING_SCENARIOS may be configured with: the template, the
\* empty list, and lists that start with either scenario and go on with the
\* plain one (so that names repeat in some lists and differ in others)
ScenarioLists ==
    {<<ScenarioTodo>>, <<>>} \cup
    {[k \in 1..n |-> IF k = 1 THEN first ELSE ScenarioPlain] :
        first \in {ScenarioPlain, ScenarioFiles}, n \in 1..MaxScenarios}

\* The values MAX_TURNS may be configured with
TurnBudgets == 0..MaxTurnsCap

\* Texts the artifact-under-test and the User Simulator may return
AssistantReplies == {"Which mode do you prefer?"}
UserReplies == {"Vibe Mode"}

\* ALL_MODELS = list(set([SKILL_MODEL, SIMULATOR_MODEL, INPUT_CHECK_MODEL, JUDGE_MODEL]))
ALL_MODELS == {"claude-sonnet-4-5", "claude-haiku-4-5"}

(***************************************************************************)
(* Conversation Driver helpers (run_scenario)                              *)
(***************************************************************************)

Message(role, content) == [role |-> role, content |-> content]

\* The block of one context file: File:, the name between backquotes, the
\* content between two code fences (a backquote is written as the piece
\* "BACKQUOTE", a fence of three as "FENCE")
FileBlock(file) ==
    <<"File: ", "BACKQUOTE", file.name, "BACKQUOTE", "\n", "FENCE", "\n",
      file.content, "\n", "FENCE">>

\* "\n\n".join(<blocks>)
RECURSIVE JoinBlocks(_)
JoinBlocks(files) ==
    IF files = <<>> THEN <<>>
    ELSE IF Len(files) = 1 THEN FileBlock(files[1])
    ELSE FileBlock(files[1]) \o <<"\n\n">> \o JoinBlocks(Tail(files))

\* initial_content: the context files in the mapping's iteration order, a
\* blank line, then the initial message
InitialContent(scenario) ==
    IF scenario.context_files # <<>>
    THEN JoinBlocks(scenario.context_files) \o <<"\n\n">> \o <<scenario.initial_message>>
    ELSE <<scenario.initial_message>>

\* messages after the first reply
FirstMessages(scenario, assistant_msg) ==
    <<Message("user", InitialContent(scenario)),
      Message("assistant", <<assistant_msg>>)>>

\* transcript = [user: initial_message, assistant: assistant_msg]
FirstTranscript(scenario, assistant_msg) ==
    <<Message("user", <<scenario.initial_message>>),
      Message("assistant", <<assistant_msg>>)>>

\* A driver that records only the assistant's reply of a Continue iteration
AppendTurn_AssistantOnly(t, user_text, assistant_msg) ==
    Append(t, Message("assistant", <<assistant_msg>>))

\* transcript.append(user); transcript.append(assistant)
AppendTurn(t, user_text, assistant_msg) ==
    t \o <<Message("user", <<user_text>>), Message("assistant", <<assistant_msg>>)>>

\* A loop test that lets the turn counter reach past the budget
BudgetLeft_Inclusive(t, budget) == t <= budget

\* turns < max_turns
BudgetLeft(t, budget) == t < budget

(***************************************************************************)
(* Scenario Runner helpers (__main__)                                      *)
(***************************************************************************)

\* A configuration check that forgets the empty list
Unconfigured_TodoOnly(scns) ==
    /\ scns # <<>>
    /\ Contains(scns[1].name, TodoMarker)

\* not TRAINING_SCENARIOS or "TODO" in str(TRAINING_SCENARIOS[0].get("name", ""))
Unconfigured(scns) ==
    \/ scns = <<>>
    \/ Contains(scns[1].name, TodoMarker)

\* total_score += 1.0
FailurePenalty == 1

\* A handler that counts the failed scenario without penalizing it
Penalize_Nothing(total) == total

Penalize(total) == total + FailurePenalty

\* float + score: defined for int, bool and float, TypeError otherwise
Addable(score) == score.t \in {"int", "bool", "float"}

\* The number a score adds: an int itself, True 1, False 0.  The totals are
\* kept in whole numbers: no judge reply of the model holds a float.
NumberOf(score) ==
    CASE score.t = "int" -> score.v
      [] score.t = "bool" -> IF score.v THEN 1 ELSE 0

\* total_score += score
AddScore(total, score) == total + NumberOf(score)

\* f"{x:.2f}" of x = total / count, as a number of hundredths: the nearest
\* one, and on a tie the even one (a tie needs a count that is a multiple
\* of 8; with one that is a multiple of 40 the float is inexact and its
\* error decides)
Format2f(total, count) ==
    LET num  == 100 * total
        q    == num \div count
        r2   == 2 * (num % count)
    IN  IF r2 < count THEN q
        ELSE IF r2 > count THEN q + 1
        ELSE IF q % 2 = 0 THEN q ELSE q + 1

\* avg_score = total_score / scenario_count if scenario_count > 0 else 0.0
AverageHundredths(total, count) ==
    IF count > 0 THEN Format2f(total, count) ELSE 0

TextLine(text) == [kind |-> "text", name |-> text, value |-> 0]

\* A harness that reports the metric as a diagnostic text
MetricLine_Diagnostic(hundredths) == TextLine("skill_quality")

\* print(f"skill_quality: {avg_score:.2f}")
MetricLine(hundredths) == [kind |-> "metric", name |-> "skill_quality", value |-> hundredths]

\* stderr lines of the scenario loop
RunningLine(name) == [kind |-> "running", name |-> name, score |-> PyNone, exc |-> "none", at |-> "none"]
ScoreLine(name, score) == [kind |-> "score", name |-> name, score |-> score, exc |-> "none", at |-> "none"]
ErrorLine(name, exc, at) == [kind |-> "error", name |-> name, score |-> PyNone, exc |-> exc, at |-> at]

\* A validation that reports success whatever the probes did
AllOk_Always(failed) == TRUE

\* all_ok of validate_models: no probe of a model failed
AllOk(failed) == failed = {}

\* A loop that takes a scenario again after it has been handled
AfterScenario_Retry(i) == i

\* for i, scenario in enumerate(TRAINING_SCENARIOS): the position after i
AfterScenario(i) == i + 1

\* One call of chat(): the scenario of the loop, the party called (skill,
\* oracle, simulator, judge), the turn counter at the call and how it ended
\* (ok, raised, and for the Oracle the answer read from it: waiting, done)
Call(scenario, to, turn, result) ==
    [scenario |-> scenario, to |-> to, turn |-> turn, result |-> result]

\* needs_user_input as a call result
OracleResult(reply) == IF OracleSaysWaiting(reply) THEN "waiting" ELSE "done"

\* datetime.now().strftime("%Y%m%d_%H%M%S"): time in whole seconds, counted
\* from the first write of the run and never running backwards.  A write
\* falls in the second of the previous one or in the next
LastStamp(files) == files[Len(files)].data.timestamp

Timestamps(files) ==
    IF files = <<>> THEN {0} ELSE {LastStamp(files), LastStamp(files) + 1}

\* str(n) of an int
RECURSIVE NaturalText(_)
NaturalText(n) ==
    IF n < 10
    THEN <<CHOOSE c \in Digits : DigitValue(c) = n>>
    ELSE Append(NaturalText(n \div 10), CHOOSE c \in Digits : DigitValue(c) = n % 10)

IntText(n) == IF n < 0 THEN <<"-">> \o NaturalText(0 - n) ELSE NaturalText(n)

\* f"{score}": the text of an int, a bool, None and a str; for a float, a
\* list and a dict, whose text is their repr, the value stands for its text
ScoreText(score) ==
    CASE score.t = "int" -> IntText(score.v)
      [] score.t = "bool" -> IF score.v THEN <<"T", "r", "u", "e">>
                                        ELSE <<"F", "a", "l", "s", "e">>
      [] score.t = "NoneType" -> <<"N", "o", "n", "e">>
      [] score.t = "str" -> score.v
      [] OTHER -> score

\* filename = f"{timestamp}_{scenario_name}_score{score}.json"
FileName(timestamp, scenario_name, score) ==
    [timestamp |-> timestamp, scenario |-> scenario_name, score |-> ScoreText(score)]

\* save_transcript: the record written to the scenario's file
TranscriptData(t, scenario_name, score, timestamp) ==
    [scenario |-> scenario_name, score |-> score, timestamp |-> timestamp,
     transcript |-> t]

\* (transcripts_dir / filename).write_text(...)
WriteText(filename, data) == [filename |-> filename, data |-> data]

(***************************************************************************)
(* State                                                                   *)
(***************************************************************************)

VARIABLES
    scenarios,      \* TRAINING_SCENARIOS
    max_turns,      \* MAX_TURNS, the max_turns of run_scenario
    pc,             \* position of the program
    idx,            \* 1-based position of the loop over TRAINING_SCENARIOS
    messages,       \* run_scenario: the history sent to the artifact-under-test
    transcript,     \* run_scenario: the transcript returned
    turns,          \* run_scenario: the turn counter
    user_reply,     \* run_scenario: the simulated user's last reply
    response,       \* needs_user_input: the Oracle's reply
    waiting,        \* what needs_user_input returned
    judge_text,     \* grade_transcript: the judge's reply
    score,          \* what grade_transcript returned
    total_score,
    scenario_count,
    written,        \* the writes of save_transcript, in order
    calls,          \* the calls of chat() made for the scenarios, in order
    validation,     \* validate_models: whether it ran and the models that failed
    log,            \* stderr lines of the scenario loop
    stdout,
    exit_code

vars ==
    <<scenarios, max_turns, pc, idx, messages, transcript, turns, user_reply,
      response, waiting, judge_text, score, total_score, scenario_count,
      written, calls, validation, log, stdout, exit_code>>

\* Values of variables that hold nothing yet
NoReply == <<"(none)">>
NoScore == [t |-> "unset", v |-> 0]
Running == 0 - 1
NotValidated == [done |-> FALSE, failed |-> {}]

conversation == <<messages, transcript, turns, user_reply, response, waiting>>
grading == <<judge_text, score>>
totals == <<total_score, scenario_count>>
output == <<stdout, exit_code>>
config == <<scenarios, max_turns>>

Init ==
    /\ scenarios \in ScenarioLists
    /\ max_turns \in TurnBudgets
    /\ pc = "config"
    /\ idx = 1
    /\ messages = <<>>
    /\ transcript = <<>>
    /\ turns = 0
    /\ user_reply = ""
    /\ response = NoReply
    /\ waiting = FALSE
    /\ judge_text = NoReply
    /\ score = NoScore
    /\ total_score = 0
    /\ scenario_count = 0
    /\ written = <<>>
    /\ calls = <<>>
    /\ validation = NotValidated
    /\ log = <<>>
    /\ stdout = <<>>
    /\ exit_code = Running

\* The scenario the loop is at
Current == scenarios[idx]

\* The replies the judge may give: every sample reply in a run of one
\* scenario, one reply of each kind in a longer run
JudgePool == IF Len(scenarios) <= 1 THEN JudgeReplies ELSE CoreJudgeReplies

\* A loop that leaves the scenario it has finished uncounted
CountOne_Skip(count) == count

\* scenario_count += 1
CountOne(count) == count + 1

\* except Exception as e: log, penalize, count, go on with the next scenario.
\* The locals of the abandoned iteration are dead and are reset.
Handle(exc, at, lines) ==
    /\ log' = lines \o <<ErrorLine(Current.name, exc, at)>>
    /\ total_score' = Penalize(total_score)
    /\ scenario_count' = CountOne(scenario_count)
    /\ idx' = AfterScenario(idx)
    /\ pc' = "next"
    /\ messages' = <<>>
    /\ transcript' = <<>>
    /\ turns' = 0
    /\ user_reply' = ""
    /\ response' = NoReply
    /\ waiting' = FALSE
    /\ score' = NoScore

(***************************************************************************)
(* Actions                                                                 *)
(***************************************************************************)

\* if not TRAINING_SCENARIOS or "TODO" in ...: print error, sentinel, exit(1)
CheckConfig ==
    /\ pc = "config"
    /\ IF Unconfigured(scenarios)
       THEN /\ stdout' = stdout \o
                  <<TextLine("Error: TRAINING_SCENARIOS not configured. Edit this file."),
                    MetricLine(0)>>
            /\ exit_code' = 1
            /\ pc' = "exited"
       ELSE /\ pc' = "validate"
            /\ UNCHANGED output
    /\ UNCHANGED <<config, idx, conversation, grading, totals, written, calls,
                   validation, log>>

\* validate_models(): every model is tried; all_ok iff none failed
ValidateModels ==
    /\ pc = "validate"
    /\ \E failed \in SUBSET ALL_MODELS :
          /\ validation' = [done |-> TRUE, failed |-> failed]
          /\ IF AllOk(failed)
             THEN /\ pc' = "next"
                  /\ UNCHANGED output
             ELSE /\ stdout' = Append(stdout, MetricLine(0))
                  /\ exit_code' = 1
                  /\ pc' = "exited"
    /\ UNCHANGED <<config, idx, conversation, grading, totals, written, calls, log>>

\* Exceptions of ref_file.read_text() in build_system_prompt: an entry of
\* references/ that cannot be read, or whose bytes are no UTF-8
ReadErrors == {"OSError", "UnicodeDecodeError"}

\* The loop takes the next scenario: run_scenario up to the first reply.
\* The system prompt is built first; when that raises no call is made
StartScenario ==
    /\ pc = "next"
    /\ idx <= Len(scenarios)
    /\ \/ \E assistant_msg \in AssistantReplies :
             /\ messages' = FirstMessages(Current, assistant_msg)
             /\ transcript' = FirstTranscript(Current, assistant_msg)
             /\ turns' = 1
             /\ pc' = "while"
             /\ log' = Append(log, RunningLine(Current.name))
             /\ judge_text' = NoReply
             /\ calls' = Append(calls, Call(idx, "skill", turns, "ok"))
             /\ UNCHANGED <<idx, user_reply, response, waiting, score, totals>>
       \/ /\ Handle("ProviderError", "skill", Append(log, RunningLine(Current.name)))
          /\ judge_text' = NoReply
          /\ calls' = Append(calls, Call(idx, "skill", turns, "raised"))
       \/ \E exc \in ReadErrors :
             /\ Handle(exc, "prompt", Append(log, RunningLine(Current.name)))
             /\ judge_text' = NoReply
             /\ UNCHANGED calls
    /\ UNCHANGED <<config, written, validation, output>>

\* while turns < max_turns and needs_user_input(transcript)
CheckContinue ==
    /\ pc = "while"
    /\ IF ~BudgetLeft(turns, max_turns)
       THEN /\ pc' = "grade"
            /\ UNCHANGED <<idx, conversation, score, totals, log, calls>>
       ELSE \/ \E reply \in OracleReplies :
                 /\ response' = reply
                 /\ waiting' = OracleSaysWaiting(reply)
                 /\ pc' = IF OracleSaysWaiting(reply) THEN "simulate" ELSE "grade"
                 /\ calls' = Append(calls, Call(idx, "oracle", turns, OracleResult(reply)))
                 /\ UNCHANGED <<idx, messages, transcript, turns, user_reply, score,
                                totals, log>>
            \/ /\ Handle("ProviderError", "oracle", log)
               /\ calls' = Append(calls, Call(idx, "oracle", turns, "raised"))
    /\ UNCHANGED <<config, judge_text, written, validation, output>>

\* user_reply = simulate_user(...); messages.append(user)
SimulateUser ==
    /\ pc = "simulate"
    /\ \/ \E text \in UserReplies :
             /\ user_reply' = text
             /\ messages' = Append(messages, Message("user", <<text>>))
             /\ response' = NoReply
             /\ waiting' = FALSE
             /\ pc' = "chat"
             /\ calls' = Append(calls, Call(idx, "simulator", turns, "ok"))
             /\ UNCHANGED <<idx, transcript, turns, score, totals, log>>
       \/ /\ Handle("ProviderError", "simulator", log)
          /\ calls' = Append(calls, Call(idx, "simulator", turns, "raised"))
    /\ UNCHANGED <<config, judge_text, written, validation, output>>

\* assistant_msg = chat(...); the appends; turns += 1
ContinueChat ==
    /\ pc = "chat"
    /\ \/ \E assistant_msg \in AssistantReplies :
             /\ messages' = Append(messages, Message("assistant", <<assistant_msg>>))
             /\ transcript' = AppendTurn(transcript, user_reply, assistant_msg)
             /\ turns' = turns + 1
             /\ pc' = "while"
             /\ calls' = Append(calls, Call(idx, "skill", turns, "ok"))
             /\ UNCHANGED <<idx, user_reply, response, waiting, score, totals, log>>
       \/ /\ Handle("ProviderError", "skill", log)
          /\ calls' = Append(calls, Call(idx, "skill", turns, "raised"))
    /\ UNCHANGED <<config, judge_text, written, validation, output>>

\* score = grade_transcript(transcript, scenario["expected_behaviors"])
GradeTranscript ==
    /\ pc = "grade"
    /\ \/ \E text \in JudgePool :
             /\ judge_text' = text
             /\ calls' = Append(calls, Call(idx, "judge", turns, "ok"))
             /\ IF JudgeOutcome[text].exc = "none"
                THEN /\ score' = JudgeOutcome[text].val
                     /\ pc' = "save"
                     /\ response' = NoReply
                     /\ waiting' = FALSE
                     /\ UNCHANGED <<idx, messages, transcript, turns, user_reply,
                                    totals, log>>
                ELSE Handle(JudgeOutcome[text].exc, "parse", log)
       \/ /\ Handle("ProviderError", "judge", log)
          /\ calls' = Append(calls, Call(idx, "judge", turns, "raised"))
          /\ UNCHANGED judge_text
    /\ UNCHANGED <<config, written, validation, output>>

\* save_transcript(...); the Score line; total_score += score; scenario_count += 1
SaveAndAccumulate ==
    /\ pc = "save"
    /\ \/ /\ \E timestamp \in Timestamps(written) :
                written' = Append(written,
                    WriteText(FileName(timestamp, Current.name, score),
                              TranscriptData(transcript, Current.name, score, timestamp)))
          /\ IF Addable(score)
             THEN /\ total_score' = AddScore(total_score, score)
                  /\ scenario_count' = CountOne(scenario_count)
                  /\ log' = Append(log, ScoreLine(Current.name, score))
                  /\ idx' = AfterScenario(idx)
                  /\ pc' = "next"
                  /\ messages' = <<>>
                  /\ transcript' = <<>>
                  /\ turns' = 0
                  /\ user_reply' = ""
                  /\ score' = NoScore
                  /\ UNCHANGED <<response, waiting>>
             ELSE Handle("TypeError", "add", Append(log, ScoreLine(Current.name, score)))
       \/ /\ Handle("OSError", "save", log)
          /\ UNCHANGED written
    /\ judge_text' = NoReply
    /\ UNCHANGED <<config, calls, validation, output>>

\* avg_score = ...; print(f"skill_quality: {avg_score:.2f}")
EmitMetric ==
    /\ pc = "next"
    /\ idx > Len(scenarios)
    /\ stdout' = Append(stdout, MetricLine(AverageHundredths(total_score, scenario_count)))
    /\ exit_code' = 0
    /\ pc' = "exited"
    /\ UNCHANGED <<config, idx, conversation, grading, totals, written, calls,
                   validation, log>>

Next ==
    \/ CheckConfig
    \/ ValidateModels
    \/ StartScenario
    \/ CheckContinue
    \/ SimulateUser
    \/ ContinueChat
    \/ GradeTranscript
    \/ SaveAndAccumulate
    \/ EmitMetric

Spec == Init /\ [][Next]_vars

(***************************************************************************)
(* Properties                                                              *)
(***************************************************************************)

\* run_scenario has made its Start step and has not been left
InConversation == pc \in {"while", "simulate", "chat", "grade", "save"}

\* The roles are user, assistant, user, assistant, ...
Alternates(t) ==
    \A k \in 1..Len(t) : t[k].role = IF k % 2 = 1 THEN "user" ELSE "assistant"

AssistantTurns(t) == Cardinality({k \in 1..Len(t) : t[k].role = "assistant"})

C1_Shape ==
    InConversation =>
        /\ turns >= 1
        /\ Len(transcript) = 2 * turns
        /\ Alternates(transcript)

C1_Step ==
    /\ (pc = "next" /\ pc' = "while") => Len(transcript') = 2
    /\ (pc = "chat" /\ pc' = "while") =>
           /\ Len(transcript') = Len(transcript) + 2
           /\ turns' = turns + 1
           /\ SubSeq(transcript', 1, Len(transcript)) = transcript
    /\ (InConversation /\ InConversation' /\ pc # "chat") =>
           /\ transcript' = transcript
           /\ turns' = turns

\* C1: after the Start step and after every Continue iteration the
\* transcript holds 2 x turns messages (2 after Start, two more per
\* iteration, none added or removed elsewhere) and its roles alternate
\* strictly, starting with user; so does the transcript handed to the grader.
C1_TranscriptPairs == [](C1_Shape) /\ [][C1_Step]_vars

\* Two Continue iterations have run and the transcript is returned
C1_Witness ==
    /\ pc = "grade"
    /\ turns = 3
    /\ Len(transcript) = 6

\* C2: run_scenario never holds more than max_turns assistant replies,
\* whatever the Oracle answers.
C2_AtMostMaxTurns ==
    InConversation => AssistantTurns(transcript) <= max_turns

\* Positions of the "Running scenario" lines of the log
RunningPositions == {j \in 1..Len(log) : log[j].kind = "running"}

\* The log lines of the k-th scenario run: from its Running line to the next
FirstLineOf(k) ==
    CHOOSE j \in RunningPositions :
        Cardinality({m \in RunningPositions : m < j}) = k - 1

LastLineOf(k) ==
    IF k < Cardinality(RunningPositions) THEN FirstLineOf(k + 1) - 1 ELSE Len(log)

FailedRun(k) == \E j \in FirstLineOf(k)..LastLineOf(k) : log[j].kind = "error"

GradedScore(k) ==
    log[CHOOSE j \in FirstLineOf(k)..LastLineOf(k) : log[j].kind = "score"].score

\* A grade as a number (Python's True counts 1, False 0)
GradeNumber(grade) ==
    IF grade.t = "bool" THEN (IF grade.v THEN 1 ELSE 0) ELSE grade.v

\* What the k-th scenario run is owed: 1 when it failed, else its grade
Owed(k) == IF FailedRun(k) THEN 1 ELSE GradeNumber(GradedScore(k))

RECURSIVE OwedUpTo(_)
OwedUpTo(k) == IF k = 0 THEN 0 ELSE OwedUpTo(k - 1) + Owed(k)

\* The metric lines printed
MetricLines == SelectSeq(stdout, LAMBDA line : line.kind = "metric")

\* v hundredths is a nearest two-decimal rendering of total / count
NearestHundredths(v, total, count) ==
    /\ 2 * (100 * total - v * count) <= count
    /\ 2 * (v * count - 100 * total) <= count

\* C3: when the loop over the scenarios has ended, every configured scenario
\* was run, in order, whether or not earlier ones raised; each one that
\* raised counts 1 and each other one its grade; the metric printed is the
\* sum of these over the number of scenarios.
C3_FailureIsolated ==
    (pc = "exited" /\ exit_code = 0) =>
        /\ Cardinality(RunningPositions) = Len(scenarios)
        /\ \A k \in 1..Len(scenarios) : log[FirstLineOf(k)].name = scenarios[k].name
        /\ scenario_count = Len(scenarios)
        /\ total_score = OwedUpTo(Len(scenarios))
        /\ Len(MetricLines) = 1
        /\ NearestHundredths(MetricLines[1].value, OwedUpTo(Len(scenarios)), Len(scenarios))

\* The first of two scenarios raised, the second was graded 4: metric 2.50
C3_Witness ==
    /\ pc = "exited"
    /\ exit_code = 0
    /\ Len(scenarios) = 2
    /\ FailedRun(1)
    /\ ~FailedRun(2)
    /\ GradedScore(2) = PyInteger(4)
    /\ MetricLines[1].value = 250

\* C4: with no scenario configured the harness prints the metric 0.00 and
\* exits non-zero; the mean is only ever taken over a positive count.
C4_EmptyConfiguration ==
    /\ (scenarios = <<>> /\ pc = "exited") =>
           /\ MetricLines = <<MetricLine(0)>>
           /\ exit_code = 1
    /\ (pc = "next" /\ idx > Len(scenarios)) => scenario_count > 0

C4_Witness ==
    /\ scenarios = <<>>
    /\ pc = "exited"
    /\ MetricLines = <<MetricLine(0)>>

\* C5: whatever text the judge returns, grade_transcript returns a score:
\* no scenario fails in the parsing of the judge's reply.
C5_GraderNeverRaises ==
    \A j \in 1..Len(log) : log[j].kind = "error" => log[j].at # "parse"

\* Positions of the overall members of a parsed JSON object
OverallPositions(pairs) == {j \in 1..Len(pairs) : pairs[j].k = OverallKey}

\* The value a JSON object gives overall (its last overall member)
OverallOf(pairs) ==
    pairs[CHOOSE j \in OverallPositions(pairs) :
              \A m \in OverallPositions(pairs) : m <= j].val

HasNumericOverall(text) ==
    /\ JsonLoads(text).ok
    /\ JsonLoads(text).val.t = "dict"
    /\ OverallPositions(JsonLoads(text).val.v) # {}
    /\ OverallOf(JsonLoads(text).val.v).t \in {"int", "float"}

\* C6: a reply that is a JSON object with a numeric overall is graded with
\* exactly that number: 4 for overall 4, 7 for overall 7 (not clamped).
C6_OverallUnchanged ==
    pc = "save" =>
        /\ judge_text = ReplyOverall4 => score = PyInteger(4)
        /\ judge_text = ReplyOverall7 => score = PyInteger(7)
        /\ HasNumericOverall(judge_text) =>
               score = OverallOf(JsonLoads(judge_text).val.v)

C6_Witness ==
    /\ pc = "save"
    /\ judge_text = ReplyOverall7
    /\ score = PyInteger(7)

\* The lines of a reply
LinesOf(text) == Split(text, "\n")

\* What follows "SCORE:" on a line that starts with it
AfterPrefix(line) == DropFirst(Strip(line), Len(ScorePrefix))

\* The part of that up to the next colon, or all of it when there is none
UpToColon(line) ==
    SubSeq(AfterPrefix(line), 1, FirstIn(AfterPrefix(line), 1, {":"}) - 1)

\* Lines that start with SCORE: and whose whole remainder is an integer
RemainderLines(text) ==
    {k \in 1..Len(LinesOf(text)) :
        /\ StartsWith(Strip(LinesOf(text)[k]), ScorePrefix)
        /\ PyInt(AfterPrefix(LinesOf(text)[k])).ok}

\* Lines that start with SCORE: and hold an integer up to the next colon
SegmentLines(text) ==
    {k \in 1..Len(LinesOf(text)) :
        /\ StartsWith(Strip(LinesOf(text)[k]), ScorePrefix)
        /\ PyInt(UpToColon(LinesOf(text)[k])).ok}

LastOf(S) == CHOOSE k \in S : \A m \in S : m <= k

\* C7: a reply that is not valid JSON is graded with the integer that is
\* the whole remainder of the last line starting with SCORE: that has such
\* a remainder; lines whose remainder is no integer are skipped.
C7_RemainderOfLine ==
    (/\ judge_text # NoReply
     /\ ~JsonLoads(judge_text).ok
     /\ RemainderLines(judge_text) # {}) =>
        /\ pc = "save"
        /\ score = PyInteger(PyInt(AfterPrefix(
                      LinesOf(judge_text)[LastOf(RemainderLines(judge_text))])).v)

\* What the scan does when it is reached: a reply json.loads rejects with
\* JSONDecodeError is graded with the integer found between "SCORE:" and
\* the next colon (or the end of the line) on the last line that, stripped,
\* starts with SCORE: and holds an integer there; lines without one are
\* skipped.  "blah\nSCORE: 2\n" is graded 2.
C7_SegmentOfLine ==
    /\ pc = "save" => (judge_text = ReplyBlahScore2 => score = PyInteger(2))
    /\ (/\ judge_text # NoReply
        /\ JsonLoads(judge_text).exc = "JSONDecodeError"
        /\ SegmentLines(judge_text) # {}) =>
           /\ pc = "save"
           /\ score = PyInteger(PyInt(UpToColon(
                         LinesOf(judge_text)[LastOf(SegmentLines(judge_text))])).v)

\* The last SCORE: line did not convert and the one before it was used
C7_Witness ==
    /\ pc = "save"
    /\ judge_text = ReplyScoreUnparsedLast
    /\ score = PyInteger(4)

\* C8: a reply that is not valid JSON and has no line that, stripped,
\* starts with SCORE: and holds an integer up to the next colon is graded 3,
\* without an exception, whatever the transcript and the expected behaviors
\* are.
C8_NeutralFallback ==
    (/\ judge_text # NoReply
     /\ ~JsonLoads(judge_text).ok
     /\ SegmentLines(judge_text) = {}) =>
        /\ pc = "save"
        /\ score = PyInteger(3)

\* What the last return does when it is reached: a reply json.loads rejects
\* with JSONDecodeError and without such a line is graded 3
C8_FallbackOnDecodeError ==
    (/\ judge_text # NoReply
     /\ JsonLoads(judge_text).exc = "JSONDecodeError"
     /\ SegmentLines(judge_text) = {}) =>
        /\ pc = "save"
        /\ score = PyInteger(3)

\* "not json at all" graded 3 after a conversation of two turns
C8_Witness ==
    /\ pc = "save"
    /\ judge_text = ReplyNotJson
    /\ score = PyInteger(3)
    /\ Len(transcript) = 4
    /\ Len(Current.expected_behaviors) = 2

\* The first user turn C9 asks for in the scenario with files b.py and a.py:
\* the files by name, then the initial message
SortedFirstTurn ==
    JoinBlocks(<<ScenarioFiles.context_files[2], ScenarioFiles.context_files[1]>>)
        \o <<"\n\n">> \o <<ScenarioFiles.initial_message>>

\* C9: with context files, the first user turn of the message history and of
\* the transcript is the files' content, sorted by name, followed by the
\* initial message.
C9_ContextSortedFirstTurn ==
    (InConversation /\ Current = ScenarioFiles) =>
        /\ messages[1].content = SortedFirstTurn
        /\ transcript[1].content = SortedFirstTurn

\* WAITING occurs in the reply, letter by letter, from some position on
HasWaiting(reply) ==
    \E k \in 1..Len(reply) :
        \A j \in 1..Len(WaitingToken) :
            /\ k + j - 1 <= Len(reply)
            /\ reply[k + j - 1] = WaitingToken[j]

\* C10: needs_user_input returns true exactly when the Oracle's reply
\* contains WAITING; every other reply (DONE, neither word, empty, lower
\* case) returns false and the driver goes on to grading, never to an error.
C10_WaitingIffToken ==
    response # NoReply =>
        /\ waiting <=> HasWaiting(response)
        /\ response \in {OracleDone, OracleEmpty, OracleLower, OracleNeither, OracleSplit}
               => ~waiting
        /\ pc = IF waiting THEN "simulate" ELSE "grade"

\* A reply that holds the word inside a sentence counted as waiting
C10_Witness ==
    /\ response = OracleSentence
    /\ waiting
    /\ pc = "simulate"

\* The parties the Conversation Driver calls
DriverParties == {"skill", "oracle", "simulator"}

\* Positions of the calls of the Conversation Driver that raised
RaisedDriverCalls ==
    {k \in 1..Len(calls) : calls[k].result = "raised" /\ calls[k].to \in DriverParties}

\* The lines of the log that belong to the k-th scenario run
LinesOfRun(k) == FirstLineOf(k)..LastLineOf(k)

C11_Aborted ==
    \A k \in RaisedDriverCalls :
        /\ idx > calls[k].scenario
        /\ \A m \in 1..Len(calls) : calls[m].scenario = calls[k].scenario => m <= k
        /\ \A j \in LinesOfRun(calls[k].scenario) : log[j].kind # "score"
        /\ \E j \in LinesOfRun(calls[k].scenario) :
               /\ log[j].kind = "error"
               /\ log[j].at = calls[k].to
        /\ Owed(calls[k].scenario) = 1

C11_Step ==
    (/\ calls' # calls
     /\ calls'[Len(calls')].result = "raised"
     /\ calls'[Len(calls')].to \in DriverParties) =>
        /\ calls' = Append(calls, calls'[Len(calls')])
        /\ calls'[Len(calls')].scenario = idx
        /\ idx' = idx + 1
        /\ pc' = "next"
        /\ transcript' = <<>>
        /\ written' = written
        /\ total_score' = total_score + 1
        /\ scenario_count' = scenario_count + 1

\* C11: when a call to the artifact-under-test, the Oracle or the Simulator
\* raises, it is the last call made for that scenario (no retry, no later
\* turn, no call of the judge), no transcript is returned or written, and
\* the runner handles the exception: it logs the error, adds 1 to the total,
\* counts the scenario and goes on with the next one.
C11_NoRetryAfterFailure == [](C11_Aborted) /\ [][C11_Step]_vars

\* The Simulator raised in the second turn of the first of two scenarios and
\* the second scenario has been started since
C11_Witness ==
    /\ Len(scenarios) = 2
    /\ idx = 2
    /\ pc = "while"
    /\ \E k \in RaisedDriverCalls :
           /\ calls[k].to = "simulator"
           /\ calls[k].scenario = 1
           /\ calls[k].turn = 2
    /\ total_score = 1
    /\ written = <<>>

C12_Emitted ==
    /\ pc # "exited" => MetricLines = <<>>
    /\ pc = "exited" =>
           /\ Len(MetricLines) = 1
           /\ MetricLines[1].name = "skill_quality"
           /\ stdout[Len(stdout)] = MetricLines[1]
           /\ exit_code \in {0, 1}
    /\ (pc = "exited" /\ exit_code = 0) =>
           /\ idx = Len(scenarios) + 1
           /\ scenario_count = Len(scenarios)
           /\ Cardinality(RunningPositions) = Len(scenarios)
    /\ (pc = "exited" /\ exit_code = 1) => log = <<>>

\* C12: a run that ends, whether on an unconfigured scenario list, on a
\* failed validation or after the loop over scenarios that succeeded or
\* raised, has printed exactly one skill_quality line; no such line is
\* printed before the end, it is the last line printed, and once it is
\* printed no scenario is processed any more.
C12_OneMetricLineAtEnd == [](C12_Emitted) /\ [][pc # "exited"]_vars

\* A run of two scenarios, the first graded and the second raised, has
\* printed its single line
C12_Witness ==
    /\ pc = "exited"
    /\ exit_code = 0
    /\ Len(scenarios) = 2
    /\ ~FailedRun(1)
    /\ FailedRun(2)
    /\ Len(stdout) = 1
    /\ stdout[1].kind = "metric"

\* validate_models ran and returned False
ValidationFailed == validation.done /\ validation.failed # {}

\* No scenario has been touched: no call, no conversation, no grade, no
\* file, no line of the loop, nothing counted
NothingRun ==
    /\ calls = <<>>
    /\ messages = <<>>
    /\ transcript = <<>>
    /\ judge_text = NoReply
    /\ score = NoScore
    /\ written = <<>>
    /\ log = <<>>
    /\ idx = 1
    /\ scenario_count = 0
    /\ total_score = 0

\* The run has ended on the sentinel
SentinelExit ==
    /\ pc = "exited"
    /\ exit_code = 1
    /\ MetricLines = <<MetricLine(0)>>

\* C13: when the scenario list is unconfigured (empty, or its first name
\* holds TODO) or validate_models fails, the run ends with the metric 0.00
\* and exit code 1 and no scenario has been run: no call for a scenario, no
\* conversation, no grade, no transcript file.
C13_SentinelWithoutRun ==
    /\ (Unconfigured(scenarios) /\ pc # "config") =>
           /\ SentinelExit
           /\ NothingRun
           /\ validation = NotValidated
    /\ ValidationFailed =>
           /\ SentinelExit
           /\ NothingRun
    /\ exit_code = 1 => (Unconfigured(scenarios) \/ ValidationFailed)

\* Two scenarios are configured and one of the two models failed its probe
C13_Witness ==
    /\ Len(scenarios) = 2
    /\ ~Unconfigured(scenarios)
    /\ Cardinality(validation.failed) = 1
    /\ SentinelExit

\* The files in the transcripts directory: of the writes under one file
\* name the last one is what the file holds
FilesOnDisk ==
    {written[j] : j \in {m \in 1..Len(written) :
        \A n \in (m + 1)..Len(written) : written[n].filename # written[m].filename}}

\* C14: when the loop has run its N scenarios, the transcripts directory
\* holds exactly one file of this run per scenario, N in all, each with its
\* scenario's name, score and transcript.
C14_OneFilePerScenario ==
    (pc = "exited" /\ exit_code = 0) =>
        /\ Cardinality(FilesOnDisk) = Len(scenarios)
        /\ \A k \in 1..Len(scenarios) :
               \E file \in FilesOnDisk :
                   /\ file.data.scenario = scenarios[k].name
                   /\ file.filename.scenario = scenarios[k].name
                   /\ Len(file.data.transcript) >= 2

\* The calls run_scenario made for the k-th scenario, in order
DriverCalls(k) ==
    SelectSeq(calls, LAMBDA c : c.scenario = k /\ c.to \in DriverParties)

\* How many of them went to a party
CallsTo(k, party) ==
    Cardinality({j \in 1..Len(DriverCalls(k)) : DriverCalls(k)[j].to = party})

\* The party of the j-th call of artifact, (Oracle, Simulator, artifact)*
PartyAt(j) ==
    IF j = 1 THEN "skill"
    ELSE CASE (j - 2) % 3 = 0 -> "oracle"
           [] (j - 2) % 3 = 1 -> "simulator"
           [] (j - 2) % 3 = 2 -> "skill"

C15_Order(k) ==
    LET c == DriverCalls(k)
    IN  \A j \in 1..Len(c) :
            /\ c[j].to = PartyAt(j)
            /\ c[j].to = "simulator" =>
                   /\ j > 1
                   /\ c[j - 1].to = "oracle"
                   /\ c[j - 1].result = "waiting"
            /\ (c[j].to = "simulator" /\ j < Len(c)) => c[j + 1].to = "skill"
            /\ (c[j].to = "skill" /\ j < Len(c)) => c[j + 1].to = "oracle"
            /\ c[j].to = "oracle" => c[j].turn < max_turns
            /\ c[j].result \in {"done", "raised"} => j = Len(c)

\* run_scenario has returned the transcript of the scenario the loop is at
Returned_Transcript == pc \in {"grade", "save"}

C15_Counts ==
    /\ InConversation =>
           Cardinality({j \in 1..Len(DriverCalls(idx)) :
               /\ DriverCalls(idx)[j].to = "skill"
               /\ DriverCalls(idx)[j].result = "ok"}) = AssistantTurns(transcript)
    /\ Returned_Transcript =>
           /\ CallsTo(idx, "skill") = AssistantTurns(transcript)
           /\ CallsTo(idx, "simulator") = AssistantTurns(transcript) - 1
           /\ CallsTo(idx, "oracle") \in
                  {AssistantTurns(transcript) - 1, AssistantTurns(transcript)}
           /\ CallsTo(idx, "oracle") = AssistantTurns(transcript) - 1
                  <=> ~BudgetLeft(turns, max_turns)

\* C15: the calls of one run_scenario are artifact, then (Oracle, Simulator,
\* artifact) repeated: the Simulator is called only right after an Oracle
\* answer of waiting, each Simulator call is followed by one artifact call
\* before the next Oracle call, the Oracle is never called with the turn
\* counter at max_turns or beyond, and nothing is called after an Oracle
\* answer of done or after a call that raised.  A transcript returned with
\* k assistant replies took k artifact calls, k-1 Simulator calls and k-1
\* (the budget ran out) or k (the Oracle answered done) Oracle calls.
C15_CallOrder ==
    /\ \A k \in 1..Len(scenarios) : C15_Order(k)
    /\ C15_Counts

\* The budget of three turns ran out on an always-waiting Oracle
C15_Witness ==
    /\ pc = "grade"
    /\ max_turns = 3
    /\ AssistantTurns(transcript) = 3
    /\ CallsTo(idx, "skill") = 3
    /\ CallsTo(idx, "simulator") = 2
    /\ CallsTo(idx, "oracle") = 2

\* The reply is a JSON object without an overall member
ObjectWithoutOverall(text) ==
    /\ JsonLoads(text).ok
    /\ JsonLoads(text).val.t = "dict"
    /\ OverallPositions(JsonLoads(text).val.v) = {}

\* C16: a reply that parses as a JSON object without overall is graded 3 by
\* the return of the JSON step; the scan of the SCORE: lines and the last
\* return are reached only when json.loads failed, and a reply that parsed
\* leaves grade_transcript in the JSON step, by its return or its exception.
C16_DefaultWithoutScan ==
    /\ pc = "save" =>
           /\ judge_text = ReplyNoOverall => score = PyInteger(3)
           /\ ObjectWithoutOverall(judge_text) =>
                  /\ score = PyInteger(DefaultOverall)
                  /\ ReturnSite(judge_text) = "json"
           /\ ReturnSite(judge_text) \in {"score_line", "last_resort"}
                  <=> JsonLoads(judge_text).exc = "JSONDecodeError"
    /\ (judge_text # NoReply /\ JsonLoads(judge_text).ok) =>
           /\ ReturnSite(judge_text) \in {"json", "raised"}
           /\ SegmentLines(judge_text) = {}
           /\ pc # "save" =>
                  /\ ReturnSite(judge_text) = "raised"
                  /\ log[Len(log)] = ErrorLine(scenarios[idx - 1].name, "AttributeError", "parse")
    /\ (judge_text # NoReply /\ JsonLoads(judge_text).exc = "RecursionError") =>
           /\ ReturnSite(judge_text) = "raised"
           /\ pc # "save"
           /\ log[Len(log)] = ErrorLine(scenarios[idx - 1].name, "RecursionError", "parse")

\* "{\"reasoning\": \"ok\"}" has been graded 3
C16_Witness ==
    /\ pc = "save"
    /\ judge_text = ReplyNoOverall
    /\ ObjectWithoutOverall(judge_text)
    /\ score = PyInteger(3)

C17_Tally ==
    /\ idx \in 1..(Len(scenarios) + 1)
    /\ scenario_count = idx - 1
    /\ Cardinality(RunningPositions) \in {idx - 1, idx}
    /\ total_score = OwedUpTo(idx - 1)
    /\ \A k \in 1..(idx - 1) :
           Cardinality({j \in LinesOfRun(k) : log[j].kind = "error"}) <= 1

C17_Step ==
    /\ idx' = idx => (total_score' = total_score /\ scenario_count' = scenario_count)
    /\ idx' # idx =>
           /\ idx' = idx + 1
           /\ scenario_count' = scenario_count + 1
           /\ IF log'[Len(log')].kind = "error"
              THEN total_score' = total_score + 1
              ELSE /\ pc = "save"
                   /\ log'[Len(log')] = ScoreLine(Current.name, score)
                   /\ total_score' = total_score + GradeNumber(score)

\* C17: throughout the run scenario_count is the number of scenarios the
\* loop has finished and total_score the sum of one contribution for each
\* of them, its grade when it succeeded and 1 when it raised; the step that
\* finishes a scenario adds that one contribution and counts one, no other
\* step touches the totals.  A scenario that was graded and then raised in
\* save_transcript or in total_score += score adds 1 and not its grade.
C17_OneContributionEach == [](C17_Tally) /\ [][C17_Step]_vars

\* The first scenario was graded "4" (a str), its file was written, the
\* addition raised, and the scenario counts 1
C17_Witness ==
    /\ pc = "next"
    /\ idx = 2
    /\ Len(written) = 1
    /\ written[1].data.score.t = "str"
    /\ log[Len(log)] = ErrorLine(scenarios[1].name, "TypeError", "add")
    /\ total_score = 1
    /\ scenario_count = 1

\* save_transcript returned for the k-th scenario run (its Score line exists)
Saved(k) == \E j \in LinesOfRun(k) : log[j].kind = "score"

\* The write of the k-th scenario run, when it has one
WriteOf(k) == written[Cardinality({m \in 1..k : Saved(m)})]

\* A recorded score equals a number (True equals 1 and False 0 in Python)
ScoreEquals(recorded, n) ==
    /\ recorded.t \in {"int", "bool"}
    /\ GradeNumber(recorded) = n

\* C18: for each finished scenario that has a transcript file, the score in
\* the file is what the scenario added to total_score, whatever the grader
\* returned.
C18_FileScoreIsContribution ==
    \A k \in 1..(idx - 1) :
        Saved(k) =>
            /\ WriteOf(k).data.scenario = scenarios[k].name
            /\ ScoreEquals(WriteOf(k).data.score, Owed(k))

====
